---- MODULE Spec2Model ----
(***************************************************************************)
(* A model of the live transcoding supervisor of tablo.tv                  *)
(* (src/src/live_transcoder.ts) together with the part of the device       *)
(* client (src/src/tablo.ts) it drives: the static instance registry, the  *)
(* start/stop reference counting, the ffmpeg child process and its         *)
(* 'error'/'exit' handlers, the abort and cleanup handlers, the watch      *)
(* sessions kept by the appliance and the output directory on disk.        *)
(*                                                                         *)
(* JavaScript runs every handler to its next await on one thread, so each  *)
(* action below is one such run: a public call up to its first await, the  *)
(* continuation after an await, a timer callback or a child process event. *)
(* A handler is written as a function from a record of the mutable state   *)
(* (see Cur) to the record after it, applied in program order.             *)
(***************************************************************************)
EXTENDS Integers, Sequences, FiniteSets, Bags, TLC

\* ------------------------------------------------------------------ bounds
\* instance() calls made in a run
MaxInstanceCalls == 2
\* start() calls made in a run, over all supervisors
MaxStarts == 2
\* stop() calls made in a run, over all supervisors
MaxStops == 2
\* child processes spawned in a run, over all supervisors
MaxSpawns == 2
\* watchChannel() calls a caller makes on the device clients directly
MaxWatches == 2
\* session() and keepaliveSession() calls made in a run
MaxQueries == 2
\* authenticated Lighthouse requests (execute calls) made in a run
MaxLighthouseCalls == 2

\* ------------------------------------------------------------------ inputs
\* The devices a caller may hand to instance(); each is named by the
\* server_id its /server/info reports.
Devices == {"D1", "D2"}
ChannelIds == {"C1", "C2"}
OutputPaths == {"./streams"}
\* Session leases (seconds) the appliance grants (PlayerSession.keepalive).
Leases == {60}

\* The leases the appliance is let grant where the timer interval is at
\* stake: around the 30 seconds start() subtracts, and well above
WideLeases == (24..36) \cup {0, 60, 120}

\* Default of the filename parameter.
DefaultFilename == "stream.m3u8"

\* Arguments of instance() the fingerprint must not depend on: output
\* path, filename and auto-restart, as callers may combine them.
CallOptions ==
    {[output_path |-> "./streams", filename |-> DefaultFilename, auto_restart |-> TRUE],
     [output_path |-> "/tmp/live", filename |-> "index.m3u8", auto_restart |-> FALSE],
     [output_path |-> "/tmp/live", filename |-> DefaultFilename, auto_restart |-> TRUE]}

VARIABLES
    instances,        \* LiveTranscoder.instances: fingerprint -> supervisor
    sup,              \* the supervisors constructed so far, by object identity
    icalls,           \* the instance() calls made so far and where each stands
    procs,            \* the child processes spawned so far
    timers,           \* the keepalive timers created so far
    sessions,         \* the watch sessions the appliances have granted, by token
    session_channels, \* Tablo.session_channels of each device: token -> channel
    queries,          \* the session() and keepaliveSession() calls made so far
    lighthouse,       \* the Lighthouse client: its token and its execute() calls
    dirs,             \* directories that exist on disk
    files,            \* playlist files that exist on disk
    last              \* the handler that ran last and what it did, in order

vars == <<instances, sup, icalls, procs, timers, sessions, session_channels,
          queries, lighthouse, dirs, files, last>>

\* ----------------------------------------------------------------- helpers
NoProcess == 0
NoTimer == 0
NoInstance == 0
\* `undefined` in the session field
NoSession == [token |-> 0, keepalive |-> 0, channel |-> "", playlist_url |-> <<>>]

Supervisors == 1..Len(sup)

\* x occurs in the sequence s
Has(s, x) == \E i \in 1..Len(s) : s[i] = x

\* how many times x occurs in the sequence s
CountIn(s, x) == Cardinality({i \in 1..Len(s) : s[i] = x})

RECURSIVE SumOver(_, _)
\* the sum of field f over the supervisors 1..n
SumOver(f, n) == IF n = 0 THEN 0 ELSE sup[n][f] + SumOver(f, n - 1)

\* JSON.stringify({ server_id, channel_id }): the keys in insertion order, the
\* values as quoted strings.
JSONStringify(server_id, channel_id) ==
    <<"{", "\"server_id\":", server_id, ",", "\"channel_id\":", channel_id, "}">>

\* createHash('sha256').update(text).digest('hex'): a digest that is
\* distinct for distinct texts (collision resistance).
Sha256Hex(text) == <<"sha256">> \o text

\* A fingerprint that hashes the server id alone.
FingerprintOfServer(server_id, channel_id) == Sha256Hex(<<"{", "\"server_id\":", server_id, "}">>)

\* The registry key of instance(): the digest of the canonical pair.
Fingerprint(server_id, channel_id) == Sha256Hex(JSONStringify(server_id, channel_id))

\* resolve(output_path, `./${id}`)
DirOf(output_path, id) == [root |-> output_path, id |-> id]
\* resolve(dir, `./${filename}`)
FileOf(dir, filename) == [dir |-> dir, name |-> filename]

\* The argument list start_ffmpeg builds: fixed options around the
\* session's playlist URL (input) and full_path (output).
FfmpegArgs(session, full_path) ==
    <<"-re", "-i", session.playlist_url, "-c:v", "libx264", "-f", "hls", full_path>>

\* The mutable state a handler reads and writes, with the effects it has had
\* so far (fx) and whether it has thrown.
Cur == [instances |-> instances, sup |-> sup, icalls |-> icalls, procs |-> procs, timers |-> timers,
        sessions |-> sessions, session_channels |-> session_channels,
        queries |-> queries, lighthouse |-> lighthouse,
        dirs |-> dirs, files |-> files, fx |-> <<>>, threw |-> FALSE,
        ret |-> FALSE]

\* The state after a handler: s, and the handler's name and effects in last.
Commit(s, op, self) ==
    /\ instances' = s.instances
    /\ sup' = s.sup
    /\ icalls' = s.icalls
    /\ procs' = s.procs
    /\ timers' = s.timers
    /\ sessions' = s.sessions
    /\ session_channels' = s.session_channels
    /\ queries' = s.queries
    /\ lighthouse' = s.lighthouse
    /\ dirs' = s.dirs
    /\ files' = s.files
    /\ last' = [op |-> op, self |-> self, fx |-> s.fx]

\* An effect of the running handler, appended to its record.
Fx(s, e) == [s EXCEPT !.fx = Append(@, e)]

\* this.emit(signal): a public signal of the supervisor. The caller listens
\* for 'error' (as the tests do), so emitting it does not throw.
Emit(s, signal) == Fx(s, signal)

\* rmSync(dir, { recursive: true, force: true }) that succeeded
RmDir(s, dir) ==
    [s EXCEPT !.dirs = @ \ {dir}, !.files = {f \in @ : f.dir # dir}]

\* -------------------------------------------------------------- the registry
\* A lookup that never finds the entry (a key that is not the one stored).
RegistryGetMiss(m, id) == NoInstance

\* instances.get(id): the registered supervisor, or NoInstance
RegistryGet(m, id) == IF id \in DOMAIN m THEN m[id] ELSE NoInstance

\* new LiveTranscoder(...): the body of the constructor after the handlers
\* are attached. rm_ok and mkdir_ok say whether the filesystem calls succeed;
\* a failing one throws out of the constructor.
Constructor(s, id, device, channel_id, output_path, filename, auto_restart, rm_ok, mkdir_ok) ==
    LET dir == DirOf(output_path, id)
        s1 == IF dir \in s.dirs
              THEN IF rm_ok THEN Fx(RmDir(s, dir), "rm")
                   ELSE [s EXCEPT !.threw = TRUE]
              ELSE s
        s2 == IF s1.threw THEN s1
              ELSE IF mkdir_ok THEN Fx([s1 EXCEPT !.dirs = @ \cup {dir}], "mkdir")
              ELSE [s1 EXCEPT !.threw = TRUE]
        obj == [id |-> id, device |-> device, channel_id |-> channel_id,
                output_path |-> output_path, filename |-> filename,
                auto_restart |-> auto_restart,
                full_path |-> FileOf(dir, filename),
                use_count |-> 0, active |-> FALSE,
                process |-> NoProcess, timer |-> NoTimer, session |-> NoSession,
                \* control state of the async calls in flight
                awaiting |-> 0,        \* start() calls suspended in watchChannel
                polls |-> 0,           \* readiness checks scheduled (setTimeout)
                aborting |-> EmptyBag, \* abort handlers suspended in deleteSession
                \* history
                starts |-> 0, started |-> 0, stops |-> 0, watches |-> 0,
                \* stopped signals emitted since it last turned Active
                stopped |-> 0]
    IN IF s2.threw THEN s2 ELSE [s2 EXCEPT !.sup = Append(@, obj)]

\* instance(device, channel_id, output_path, filename, auto_restart) up to
\* its await of device.info(): the call is in flight.
InstanceBeginWith(s, device, channel_id, output_path, filename, auto_restart) ==
    [s EXCEPT !.icalls =
        Append(@, [device |-> device, channel_id |-> channel_id,
                   output_path |-> output_path, filename |-> filename,
                   auto_restart |-> auto_restart,
                   pc |-> "info", id |-> <<>>, result |-> NoInstance,
                   \* history: another call for the same pair was suspended
                   \* in device.info() when this one resumed
                   raced |-> FALSE])]

\* The same call with the filename left to its default.
InstanceBegin(s, device, channel_id, output_path, auto_restart) ==
    InstanceBeginWith(s, device, channel_id, output_path, DefaultFilename, auto_restart)

\* An instance() that constructs the supervisor and returns it without
\* instances.set(id, instance).
InstanceNoInsert(s, i, info_ok, rm_ok, mkdir_ok) ==
    LET c == s.icalls[i]
        id == Fingerprint(c.device, c.channel_id)
        found == RegistryGet(s.instances, id)
        s0 == [s EXCEPT !.icalls[i].id = id]
        s1 == Constructor(s0, id, c.device, c.channel_id, c.output_path,
                          c.filename, c.auto_restart, rm_ok, mkdir_ok)
    IN IF ~info_ok
       THEN Fx([s EXCEPT !.icalls[i].pc = "threw"], "throw")
       ELSE IF found # NoInstance
       THEN [s0 EXCEPT !.icalls[i].pc = "returned", !.icalls[i].result = found]
       ELSE IF s1.threw
       THEN Fx([s1 EXCEPT !.icalls[i].pc = "threw"], "throw")
       ELSE [s1 EXCEPT !.icalls[i].pc = "returned", !.icalls[i].result = Len(s1.sup)]

\* An instance() that constructs the supervisor before it tests the
\* device's information.
InstanceConstructsFirst(s, i, info_ok, rm_ok, mkdir_ok) ==
    LET c == s.icalls[i]
        id == Fingerprint(c.device, c.channel_id)
        found == RegistryGet(s.instances, id)
        s0 == [s EXCEPT !.icalls[i].id = id]
        s1 == Constructor(s0, id, c.device, c.channel_id, c.output_path,
                          c.filename, c.auto_restart, rm_ok, mkdir_ok)
        s2 == [s1 EXCEPT !.instances = (id :> Len(s1.sup)) @@ @]
    IN IF found # NoInstance /\ info_ok
       THEN [s0 EXCEPT !.icalls[i].pc = "returned", !.icalls[i].result = found]
       ELSE IF s1.threw \/ ~info_ok
       THEN Fx([s1 EXCEPT !.icalls[i].pc = "threw", !.icalls[i].id = <<>>,
                          !.threw = FALSE], "throw")
       ELSE [s2 EXCEPT !.icalls[i].pc = "returned", !.icalls[i].result = Len(s2.sup)]

\* An instance() that hands the call's auto-restart flag to the supervisor
\* it finds registered.
InstanceUpdatesOptions(s, i, info_ok, rm_ok, mkdir_ok) ==
    LET c == s.icalls[i]
        id == Fingerprint(c.device, c.channel_id)
        found == RegistryGet(s.instances, id)
        s0 == [s EXCEPT !.icalls[i].id = id]
        s1 == Constructor(s0, id, c.device, c.channel_id, c.output_path,
                          c.filename, c.auto_restart, rm_ok, mkdir_ok)
        s2 == [s1 EXCEPT !.instances = (id :> Len(s1.sup)) @@ @]
    IN IF ~info_ok
       THEN Fx([s EXCEPT !.icalls[i].pc = "threw"], "throw")
       ELSE IF found # NoInstance
       THEN [s0 EXCEPT !.icalls[i].pc = "returned", !.icalls[i].result = found,
                       !.sup[found].auto_restart = c.auto_restart]
       ELSE IF s1.threw
       THEN Fx([s1 EXCEPT !.icalls[i].pc = "threw"], "throw")
       ELSE [s2 EXCEPT !.icalls[i].pc = "returned", !.icalls[i].result = Len(s2.sup)]

\* instance() from the answer of device.info() to its return or throw, for
\* the call i in flight. info_ok says whether device.info() yields the
\* device's information; info.server_id is the name of the device.
Instance(s, i, info_ok, rm_ok, mkdir_ok) ==
    LET c == s.icalls[i]
        id == Fingerprint(c.device, c.channel_id)
        found == RegistryGet(s.instances, id)
        s0 == [s EXCEPT !.icalls[i].id = id,
                        !.icalls[i].raced =
                            \E k \in 1..Len(s.icalls) :
                                /\ k # i /\ s.icalls[k].pc = "info"
                                /\ s.icalls[k].device = c.device
                                /\ s.icalls[k].channel_id = c.channel_id]
        s1 == Constructor(s0, id, c.device, c.channel_id, c.output_path,
                          c.filename, c.auto_restart, rm_ok, mkdir_ok)
        s2 == [s1 EXCEPT !.instances = (id :> Len(s1.sup)) @@ @]
    IN IF ~info_ok
       THEN Fx([s EXCEPT !.icalls[i].pc = "threw"], "throw")
       ELSE IF found # NoInstance
       THEN [s0 EXCEPT !.icalls[i].pc = "returned", !.icalls[i].result = found]
       ELSE IF s1.threw
       THEN Fx([s1 EXCEPT !.icalls[i].pc = "threw"], "throw")
       ELSE [s2 EXCEPT !.icalls[i].pc = "returned", !.icalls[i].result = Len(s2.sup)]

InstanceCall(device, channel_id, output_path, auto_restart) ==
    /\ Len(icalls) < MaxInstanceCalls
    /\ Commit(InstanceBegin(Cur, device, channel_id, output_path, auto_restart),
              "instance", NoInstance)

\* instance() called with every argument given.
InstanceCallWith(device, channel_id, output_path, filename, auto_restart) ==
    /\ Len(icalls) < MaxInstanceCalls
    /\ Commit(InstanceBeginWith(Cur, device, channel_id, output_path, filename,
                                auto_restart),
              "instance", NoInstance)

InstanceResume(i, info_ok, rm_ok, mkdir_ok) ==
    /\ i \in 1..Len(icalls)
    /\ icalls[i].pc = "info"
    /\ LET s == Instance(Cur, i, info_ok, rm_ok, mkdir_ok)
       IN Commit(s, "instance_resume", s.icalls[i].result)

\* ------------------------------------------------------- the device client
\* Tablo.watchChannel(channel_id): the appliance grants a session (a new
\* token, a lease) or the call yields undefined. ret is the session.
WatchChannel(s, device, channel_id, granted, lease) ==
    IF ~granted THEN [s EXCEPT !.ret = NoSession]
    ELSE LET token == Len(s.sessions) + 1
         IN [s EXCEPT
               !.sessions = Append(@, [device |-> device, channel |-> channel_id,
                                       live |-> TRUE]),
               !.session_channels[device] = (token :> channel_id) @@ @,
               !.ret = [token |-> token, keepalive |-> lease,
                        channel |-> channel_id,
                        playlist_url |-> <<"playlist", token>>]]

\* A deleteSession that reports its success and keeps the recorded channel.
DeleteSessionKeepsChannel(s, device, session, ok) ==
    IF ~ok THEN [s EXCEPT !.ret = FALSE]
    ELSE [s EXCEPT !.sessions[session.token].live = FALSE, !.ret = TRUE]

\* Tablo.deleteSession(session): on success the appliance drops the session
\* and the client forgets its channel. ret is the success.
DeleteSession(s, device, session, ok) ==
    IF ~ok THEN [s EXCEPT !.ret = FALSE]
    ELSE [s EXCEPT
            !.sessions[session.token].live = FALSE,
            !.session_channels[device] =
                [t \in DOMAIN @ \ {session.token} |-> @[t]],
            !.ret = TRUE]

\* `undefined` as the answer of session() or keepaliveSession()
NoAnswer == [token |-> 0, channel |-> ""]

\* Tablo.session(token) and Tablo.keepaliveSession(token) up to their await
\* of the request: the channel is read from session_channels first
\* (`undefined` when the token is not there).
SessionQueryBegin(s, device, token) ==
    LET known == s.session_channels[device]
        channel == IF token \in DOMAIN known THEN known[token] ELSE ""
    IN [s EXCEPT !.queries = Append(@, [device |-> device, token |-> token,
                                        channel |-> channel,
                                        pc |-> "sent", result |-> NoAnswer])]

\* The same calls from the answer of the appliance: the response with the
\* channel read before the await, or `undefined` when there is no response.
\* The appliance answers only for a session it holds.
SessionQueryEnd(s, q, answered) ==
    LET c == s.queries[q]
        response == /\ answered
                    /\ s.sessions[c.token].device = c.device
                    /\ s.sessions[c.token].live
    IN [s EXCEPT !.queries[q].pc = "returned",
                 !.queries[q].result = IF response
                                       THEN [token |-> c.token, channel |-> c.channel]
                                       ELSE NoAnswer]

\* A caller's own watchChannel(channel_id) on a device client.
WatchCall(device, channel_id, granted, lease) ==
    /\ Len(sessions) < MaxWatches
    /\ Commit(WatchChannel(Cur, device, channel_id, granted, lease),
              "watchChannel", NoInstance)

\* A caller's deleteSession(token) on the client that watched; the
\* appliance can only succeed on a session it holds.
DeleteCall(token, ok) ==
    /\ token \in 1..Len(sessions)
    /\ LET held == sessions[token].live
       IN Commit(Fx(DeleteSession(Cur, sessions[token].device, [token |-> token],
                                  ok /\ held),
                    IF ok /\ held THEN "deleted" ELSE "not_deleted"),
                 "deleteSession", NoInstance)

\* A caller's session(token) or keepaliveSession(token) on the client that
\* watched, up to the await; the two differ in the request they send only.
QueryCall(token, kind) ==
    /\ Len(queries) < MaxQueries
    /\ token \in 1..Len(sessions)
    /\ Commit(SessionQueryBegin(Cur, sessions[token].device, token), kind, NoInstance)

\* The appliance answers (or fails to answer) the query q.
QueryAnswer(q, answered) ==
    /\ q \in 1..Len(queries)
    /\ queries[q].pc = "sent"
    /\ Commit(SessionQueryEnd(Cur, q, answered), "query_answer", NoInstance)

\* ------------------------------------------------------------ the supervisor
\* A 'stopped' handler that emits the signal and leaves the directory.
StoppedHandlerKeepsDir(s, o, rm_ok) ==
    Emit([s EXCEPT !.sup[o].stopped = @ + 1], "stopped")

\* A 'stopped' handler that also drops the supervisor from the registry.
StoppedHandlerEvicts(s, o, rm_ok) ==
    LET current_path == DirOf(s.sup[o].output_path, s.sup[o].id)
        s1 == IF current_path \in s.dirs
              THEN IF rm_ok THEN Fx(RmDir(s, current_path), "rm")
                   ELSE Fx(s, "rm_failed")
              ELSE s
        s2 == [s1 EXCEPT !.instances = [id \in DOMAIN @ \ {s.sup[o].id} |-> @[id]]]
    IN Emit([s2 EXCEPT !.sup[o].stopped = @ + 1], "stopped")

\* The emitter's 'stopped' handler: remove the output directory, swallowing
\* a failure, then emit the public stopped signal.
StoppedHandler(s, o, rm_ok) ==
    LET current_path == DirOf(s.sup[o].output_path, s.sup[o].id)
        s1 == IF current_path \in s.dirs
              THEN IF rm_ok THEN Fx(RmDir(s, current_path), "rm")
                   ELSE Fx(s, "rm_failed")
              ELSE s
    IN Emit([s1 EXCEPT !.sup[o].stopped = @ + 1], "stopped")

\* An abort handler that emits 'stopped' first and clears the flag after.
AbortFinishStoppedFirst(s, o, rm_ok) ==
    LET s1 == StoppedHandler(s, o, rm_ok)
    IN Fx([s1 EXCEPT !.sup[o].active = FALSE], "clear_active")

\* The abort handler after its await of deleteSession (or from the session
\* test when no session is recorded): clear the flag, emit 'stopped'.
AbortFinish(s, o, rm_ok) ==
    StoppedHandler(Fx([s EXCEPT !.sup[o].active = FALSE], "clear_active"), o, rm_ok)

\* An 'abort' handler without the test of the process handle: it deletes
\* the session and emits 'stopped' on every 'abort'.
AbortUnguarded(s, o, rm_ok) ==
    LET p == s.sup[o].process
        t == s.sup[o].timer
        s1 == Fx(s, "write_q")
        s2 == IF p # NoProcess /\ s1.procs[p].status = "running"
              THEN Fx([s1 EXCEPT !.procs[p].status = "killed"], "kill")
              ELSE Fx(s1, "kill")
        s3 == Fx([s2 EXCEPT !.sup[o].process = NoProcess], "clear_process")
        s4 == IF t # NoTimer
              THEN Fx([s3 EXCEPT !.timers[t].destroyed = TRUE,
                                 !.sup[o].timer = NoTimer], "destroy_timer")
              ELSE s3
    IN IF s4.sup[o].session # NoSession
       THEN Fx([s4 EXCEPT !.sup[o].aborting = @ (+) SetToBag({s4.sup[o].session})],
               "delete_session")
       ELSE AbortFinish(s4, o, rm_ok)

\* The emitter's 'abort' handler up to its await of deleteSession.
Abort(s, o, rm_ok) ==
    LET p == s.sup[o].process
        t == s.sup[o].timer
        s1 == Fx(s, "write_q")
        \* kill() signals a running child; the handle's killed flag is false
        \* here, the handle being dropped right after every kill
        s2 == IF s1.procs[p].status = "running"
              THEN Fx([s1 EXCEPT !.procs[p].status = "killed"], "kill")
              ELSE Fx(s1, "kill")
        s3 == Fx([s2 EXCEPT !.sup[o].process = NoProcess], "clear_process")
        s4 == IF t # NoTimer
              THEN Fx([s3 EXCEPT !.timers[t].destroyed = TRUE,
                                 !.sup[o].timer = NoTimer], "destroy_timer")
              ELSE s3
    IN IF p = NoProcess THEN s
       ELSE IF s4.sup[o].session # NoSession
       THEN Fx([s4 EXCEPT !.sup[o].aborting = @ (+) SetToBag({s4.sup[o].session})],
               "delete_session")
       ELSE AbortFinish(s4, o, rm_ok)

\* start_ffmpeg(): spawn the child with the recorded session's playlist as
\* input. spawn_ok says whether the spawn succeeds (a failed one reports
\* 'error' later). ret is the boolean returned.
StartFfmpeg(s, o, spawn_ok) ==
    IF s.sup[o].session = NoSession THEN [s EXCEPT !.ret = FALSE]
    ELSE LET pid == Len(s.procs) + 1
         IN Fx([s EXCEPT
                  !.procs = Append(@, [owner |-> o,
                                       status |-> IF spawn_ok THEN "running" ELSE "failed",
                                       args |-> FfmpegArgs(s.sup[o].session,
                                                           s.sup[o].full_path)]),
                  !.sup[o].process = pid,
                  !.ret = TRUE], "spawn")

\* Whether start_ffmpeg() would spawn: the cap on spawns applies then.
WouldSpawn(o) == sup[o].session # NoSession

\* The body shared by the child's 'error' and 'exit' handlers after the
\* public signal: abort without auto-restart, else respawn.
ProcessFault(s, o, spawn_ok, rm_ok) ==
    IF ~s.sup[o].auto_restart
    THEN Abort(Fx(s, "emit_abort"), o, rm_ok)
    ELSE StartFfmpeg(s, o, spawn_ok)

\* A timer interval taken in seconds where the Timer counts milliseconds.
KeepaliveIntervalSeconds(keepalive) == keepalive - 30

\* The interval, in milliseconds, start() gives its keepalive Timer for a
\* session whose lease is keepalive seconds.
KeepaliveInterval(keepalive) == (keepalive - 30) * 1000

\* A start() without the shortcut for an Active supervisor: it always asks
\* for a watch session.
StartAlwaysWatches(o) ==
    /\ o \in Supervisors
    /\ SumOver("starts", Len(sup)) < MaxStarts
    /\ Commit(Fx([Cur EXCEPT !.sup[o].starts = @ + 1,
                             !.sup[o].awaiting = @ + 1,
                             !.sup[o].watches = @ + 1], "watch_request"),
              "start", o)

\* start() up to its await of watchChannel, or all of it when Active.
Start(o) ==
    /\ o \in Supervisors
    /\ SumOver("starts", Len(sup)) < MaxStarts
    /\ LET s0 == [Cur EXCEPT !.sup[o].starts = @ + 1]
       IN IF sup[o].active
          THEN Commit(Emit([s0 EXCEPT !.sup[o].use_count = @ + 1,
                                      !.sup[o].started = @ + 1], "ready"),
                      "start", o)
          ELSE Commit(Fx([s0 EXCEPT !.sup[o].awaiting = @ + 1,
                                    !.sup[o].watches = @ + 1], "watch_request"),
                      "start", o)

\* A start() that counts its consumer before it tests the session granted.
StartResumeCountsEarly(o, granted, lease, spawn_ok) ==
    /\ o \in Supervisors
    /\ sup[o].awaiting > 0
    /\ granted => Len(procs) < MaxSpawns
    /\ LET s0 == [Cur EXCEPT !.sup[o].awaiting = @ - 1, !.sup[o].use_count = @ + 1]
           s1 == WatchChannel(s0, sup[o].device, sup[o].channel_id, granted, lease)
           s2 == [s1 EXCEPT !.sup[o].session = s1.ret]
           s3 == Fx([s2 EXCEPT
                       !.timers = Append(@, [owner |-> o,
                                             interval |-> KeepaliveInterval(s2.sup[o].session.keepalive),
                                             destroyed |-> FALSE]),
                       !.sup[o].timer = Len(s2.timers) + 1], "new_timer")
           s5 == StartFfmpeg(s3, o, spawn_ok)
           s6 == IF s5.ret
                 THEN [s5 EXCEPT !.sup[o].polls = @ + 1, !.sup[o].started = @ + 1]
                 ELSE s5
       IN IF s2.sup[o].session = NoSession
          THEN Commit(Emit(s2, "error"), "start_resume", o)
          ELSE Commit(s6, "start_resume", o)

\* start() from the answer of watchChannel to its return.
StartResume(o, granted, lease, spawn_ok) ==
    /\ o \in Supervisors
    /\ sup[o].awaiting > 0
    /\ granted => Len(procs) < MaxSpawns
    /\ LET s0 == [Cur EXCEPT !.sup[o].awaiting = @ - 1]
           s1 == WatchChannel(s0, sup[o].device, sup[o].channel_id, granted, lease)
           s2 == [s1 EXCEPT !.sup[o].session = s1.ret]
           \* new Timer((keepalive - 30) * 1000)
           s3 == Fx([s2 EXCEPT
                       !.timers = Append(@, [owner |-> o,
                                             interval |-> KeepaliveInterval(s2.sup[o].session.keepalive),
                                             destroyed |-> FALSE]),
                       !.sup[o].timer = Len(s2.timers) + 1], "new_timer")
           s4 == [s3 EXCEPT !.sup[o].use_count = @ + 1]
           s5 == StartFfmpeg(s4, o, spawn_ok)
           s6 == IF s5.ret
                 THEN [s5 EXCEPT !.sup[o].polls = @ + 1, !.sup[o].started = @ + 1]
                 ELSE s5
       IN IF s2.sup[o].session = NoSession
          THEN Commit(Emit(s2, "error"), "start_resume", o)
          ELSE Commit(s6, "start_resume", o)

\* One readiness check (the setTimeout callback of start's check()).
Poll(o) ==
    /\ o \in Supervisors
    /\ sup[o].polls > 0
    /\ IF sup[o].full_path \in files
       THEN Commit(Emit([Cur EXCEPT !.sup[o].active = TRUE,
                                    !.sup[o].polls = @ - 1,
                                    !.sup[o].stopped = IF sup[o].active THEN @ ELSE 0],
                        "ready"), "poll", o)
       ELSE Commit(Fx(Cur, "check"), "poll", o)

\* A stop() that tears down one consumer early (use_count <= 1).
StopOffByOne(o, rm_ok) ==
    /\ o \in Supervisors
    /\ SumOver("stops", Len(sup)) < MaxStops
    /\ LET s0 == [Cur EXCEPT !.sup[o].stops = @ + 1, !.sup[o].use_count = @ - 1]
       IN IF s0.sup[o].active /\ s0.sup[o].use_count <= 1
          THEN Commit(Abort(Fx(s0, "emit_abort"), o, rm_ok), "stop", o)
          ELSE Commit(s0, "stop", o)

\* stop()
Stop(o, rm_ok) ==
    /\ o \in Supervisors
    /\ SumOver("stops", Len(sup)) < MaxStops
    /\ LET s0 == [Cur EXCEPT !.sup[o].stops = @ + 1, !.sup[o].use_count = @ - 1]
       IN IF s0.sup[o].active /\ s0.sup[o].use_count <= 0
          THEN Commit(Abort(Fx(s0, "emit_abort"), o, rm_ok), "stop", o)
          ELSE Commit(s0, "stop", o)

\* The abort handler resumes: deleteSession has answered.
AbortResume(o, session, deleted, rm_ok) ==
    /\ o \in Supervisors
    /\ BagIn(session, sup[o].aborting)
    /\ LET s0 == [Cur EXCEPT !.sup[o].aborting = @ (-) SetToBag({session})]
           s1 == DeleteSession(s0, sup[o].device, session, deleted)
       IN Commit(AbortFinish(s1, o, rm_ok), "abort_resume", o)

\* ------------------------------------------------------------ the child
\* A running ffmpeg writes its playlist into the output directory.
WritePlaylist(p) ==
    /\ p \in 1..Len(procs)
    /\ procs[p].status = "running"
    /\ LET file == procs[p].args[Len(procs[p].args)]
       IN /\ file.dir \in dirs
          /\ file \notin files
          /\ Commit([Cur EXCEPT !.files = @ \cup {file}], "ffmpeg_write", procs[p].owner)

\* An 'exit' handler that respawns or aborts first and emits exit after.
ExitEventSignalsLast(p, spawn_ok, rm_ok) ==
    /\ p \in 1..Len(procs)
    /\ procs[p].status \in {"running", "killed"}
    /\ LET o == procs[p].owner
           s0 == [Cur EXCEPT !.procs[p].status = "exited"]
       IN /\ (sup[o].auto_restart /\ WouldSpawn(o)) => Len(procs) < MaxSpawns
          /\ Commit(Emit(ProcessFault(s0, o, spawn_ok, rm_ok), "exit"), "exit", o)

\* The child ends (by itself or after kill()) and its 'exit' handler runs.
ExitEvent(p, spawn_ok, rm_ok) ==
    /\ p \in 1..Len(procs)
    /\ procs[p].status \in {"running", "killed"}
    /\ LET o == procs[p].owner
           s0 == Emit([Cur EXCEPT !.procs[p].status = "exited"], "exit")
       IN /\ (sup[o].auto_restart /\ WouldSpawn(o)) => Len(procs) < MaxSpawns
          /\ Commit(ProcessFault(s0, o, spawn_ok, rm_ok), "exit", o)

\* A child that could not be spawned reports 'error' and its handler runs.
\* Node may or may not deliver 'exit' after 'error' for the same child;
\* then_exit says whether it does, the 'exit' handler running right after.
ErrorEvent(p, then_exit, spawn_ok, rm_ok) ==
    /\ p \in 1..Len(procs)
    /\ procs[p].status = "failed"
    /\ LET o == procs[p].owner
           s0 == Emit([Cur EXCEPT !.procs[p].status = "errored"], "error")
           s1 == ProcessFault(s0, o, spawn_ok, rm_ok)
           s2 == ProcessFault(Emit([s1 EXCEPT !.procs[p].status = "errored_exited"], "exit"),
                              o, spawn_ok, rm_ok)
       IN /\ (sup[o].auto_restart /\ WouldSpawn(o))
               => Len(procs) + (IF then_exit THEN 1 ELSE 0) < MaxSpawns
          /\ Commit(IF then_exit THEN s2 ELSE s1, "error", o)

\* ------------------------------------------------------- the keepalive timer
\* A 'tick' handler that destroys its timer once it has sent a request.
TickHandlerOneShot(s, t) ==
    LET o == s.timers[t].owner
    IN IF s.sup[o].session # NoSession
       THEN Fx([SessionQueryBegin(s, s.sup[o].device, s.sup[o].session.token)
                   EXCEPT !.timers[t].destroyed = TRUE], "keepalive_request")
       ELSE s

\* The timer's 'tick' handler up to its await: a keepaliveSession request
\* for the recorded session, if one is recorded.
TickHandler(s, t) ==
    LET o == s.timers[t].owner
    IN IF s.sup[o].session # NoSession
       THEN Fx(SessionQueryBegin(s, s.sup[o].device, s.sup[o].session.token),
               "keepalive_request")
       ELSE s

\* A tick of the timer t, which destroy() has not stopped.
Tick(t) ==
    /\ t \in 1..Len(timers)
    /\ ~timers[t].destroyed
    /\ Len(queries) < MaxQueries
    /\ Commit(TickHandler(Cur, t), "tick", timers[t].owner)

\* ------------------------------------------------------ the Lighthouse client
\* What the login request can come to: a response that is ok (its body is
\* the token), a response that is not ok, or no response (fetch throws).
LoginOutcomes == {"ok", "rejected", "failed"}

\* What the request itself can come to: a response that is ok, a 401, any
\* other response that is not ok, or no response (fetch throws).
Responses == {"ok", "unauthorized", "refused", "failed"}

\* Lighthouse.authenticate(): the login request has come to outcome. The
\* token is stored on an ok response and deleted on one that is not ok; ret
\* is the boolean returned.
Authenticate(s, outcome) ==
    CASE outcome = "ok" -> [s EXCEPT !.lighthouse.token = TRUE, !.ret = TRUE]
      [] outcome = "rejected" -> [s EXCEPT !.lighthouse.token = FALSE, !.ret = FALSE]
      [] OTHER -> [s EXCEPT !.ret = FALSE]

\* execute() from its headers to its await of fetch: the request of call c
\* is sent with whatever token is held.
ExecuteSend(s, c) ==
    Fx([s EXCEPT !.lighthouse.calls[c].pc = "request",
                 !.lighthouse.calls[c].sent = @ + 1,
                 !.lighthouse.calls[c].no_token = @ \/ ~s.lighthouse.token], "request")

\* execute(..., is_retry) up to its first await: the login when no token is
\* held, else the request.
Execute(s, c, is_retry) ==
    LET s0 == [s EXCEPT !.lighthouse.calls[c].is_retry = is_retry]
    IN IF ~s0.lighthouse.token
       THEN Fx([s0 EXCEPT !.lighthouse.calls[c].pc = "login",
                          !.lighthouse.calls[c].logins = @ + 1], "login_request")
       ELSE ExecuteSend(s0, c)

\* execute() resumes from the login it began with: throw when it failed,
\* else send the request.
ExecuteAuthenticated(s, c, outcome) ==
    LET s1 == Authenticate(s, outcome)
    IN IF ~s1.ret
       THEN Fx([s1 EXCEPT !.lighthouse.calls[c].pc = "threw"], "throw")
       ELSE ExecuteSend(s1, c)

\* An execute() that logs in again and retries on every 401.
ExecuteResponseRetriesAgain(s, c, response) ==
    LET s0 == [s EXCEPT !.lighthouse.calls[c].status = response]
    IN IF response = "ok"
       THEN [s0 EXCEPT !.lighthouse.calls[c].pc = "returned"]
       ELSE IF response = "unauthorized"
       THEN Fx([s0 EXCEPT !.lighthouse.calls[c].pc = "relogin",
                          !.lighthouse.calls[c].relogins = @ + 1], "login_request")
       ELSE Fx([s0 EXCEPT !.lighthouse.calls[c].pc = "threw"], "throw")

\* execute() resumes from fetch: return the body of an ok response; on a
\* 401 to a first attempt log in again; throw otherwise.
ExecuteResponse(s, c, response) ==
    LET s0 == [s EXCEPT !.lighthouse.calls[c].status = response]
    IN IF response = "ok"
       THEN [s0 EXCEPT !.lighthouse.calls[c].pc = "returned"]
       ELSE IF response = "unauthorized" /\ ~s0.lighthouse.calls[c].is_retry
       THEN Fx([s0 EXCEPT !.lighthouse.calls[c].pc = "relogin",
                          !.lighthouse.calls[c].relogins = @ + 1], "login_request")
       ELSE Fx([s0 EXCEPT !.lighthouse.calls[c].pc = "threw"], "throw")

\* execute() resumes from the login that followed a 401: the retry,
\* execute(..., true), when it succeeded, else throw.
ExecuteReauthenticated(s, c, outcome) ==
    LET s1 == Authenticate(s, outcome)
    IN IF s1.ret
       THEN Execute(s1, c, TRUE)
       ELSE Fx([s1 EXCEPT !.lighthouse.calls[c].pc = "threw"], "throw")

\* A caller's authenticated request (get or post).
LighthouseCall ==
    /\ Len(lighthouse.calls) < MaxLighthouseCalls
    /\ LET c == Len(lighthouse.calls) + 1
           s0 == [Cur EXCEPT !.lighthouse.calls =
                     Append(@, [pc |-> "called", is_retry |-> FALSE, status |-> "none",
                                \* history: requests sent, logins before the
                                \* request, logins after a 401, and whether a
                                \* request went out with no token held
                                sent |-> 0, logins |-> 0, relogins |-> 0,
                                no_token |-> FALSE])]
       IN Commit(Execute(s0, c, FALSE), "execute", NoInstance)

\* The login request of call c comes to its outcome.
LoginAnswer(c, outcome) ==
    /\ c \in 1..Len(lighthouse.calls)
    /\ lighthouse.calls[c].pc \in {"login", "relogin"}
    /\ IF lighthouse.calls[c].pc = "login"
       THEN Commit(ExecuteAuthenticated(Cur, c, outcome), "login_answer", NoInstance)
       ELSE Commit(ExecuteReauthenticated(Cur, c, outcome), "login_answer", NoInstance)

\* The request of call c comes to its response.
ResponseArrives(c, response) ==
    /\ c \in 1..Len(lighthouse.calls)
    /\ lighthouse.calls[c].pc = "request"
    /\ Commit(ExecuteResponse(Cur, c, response), "response", NoInstance)

\* ------------------------------------------------------------------- Init
\* The program before any call: an empty registry, nothing on disk.
Empty == [instances |-> <<>>, sup |-> <<>>, icalls |-> <<>>, procs |-> <<>>,
          timers |-> <<>>, sessions |-> <<>>,
          session_channels |-> [d \in Devices |-> <<>>], queries |-> <<>>,
          \* no token before the first login, no call made
          lighthouse |-> [token |-> FALSE, calls |-> <<>>],
          dirs |-> {}, files |-> {}, fx |-> <<>>, threw |-> FALSE, ret |-> FALSE]

\* The variables hold the state s, reached by handler op of supervisor self.
Is(s, op, self) ==
    /\ instances = s.instances
    /\ sup = s.sup
    /\ icalls = s.icalls
    /\ procs = s.procs
    /\ timers = s.timers
    /\ sessions = s.sessions
    /\ session_channels = s.session_channels
    /\ queries = s.queries
    /\ lighthouse = s.lighthouse
    /\ dirs = s.dirs
    /\ files = s.files
    /\ last = [op |-> op, self |-> self, fx |-> s.fx]

Init == Is(Empty, "init", NoInstance)

\* The state in which a caller holds its supervisor: the first instance()
\* for device D1 and channel C1 has returned, with either auto_restart.
InitSupervisor ==
    \E p \in OutputPaths, a \in BOOLEAN :
        Is(Instance(InstanceBegin(Empty, "D1", "C1", p, a), 1, TRUE, TRUE, TRUE),
           "instance_resume", 1)

\* The registry: instance() calls in any interleaving.
NextRegistry ==
    \/ \E d \in Devices, c \in ChannelIds, p \in OutputPaths, a \in BOOLEAN :
          InstanceCall(d, c, p, a)
    \/ \E i \in 1..Len(icalls), io \in BOOLEAN, ro \in BOOLEAN, mo \in BOOLEAN :
          InstanceResume(i, io, ro, mo)

\* The registry under calls that differ in every argument.
NextFingerprint ==
    \/ \E d \in Devices, c \in ChannelIds, opt \in CallOptions :
          InstanceCallWith(d, c, opt.output_path, opt.filename, opt.auto_restart)
    \/ \E i \in 1..Len(icalls), io \in BOOLEAN, ro \in BOOLEAN, mo \in BOOLEAN :
          InstanceResume(i, io, ro, mo)

\* The device client whose sessions the caller manages directly.
SessionDevices == {"D1"}

\* The device clients driven by a caller: sessions watched, queried, kept
\* alive and deleted.
NextSessions ==
    \/ \E d \in SessionDevices, c \in ChannelIds, g \in BOOLEAN, l \in Leases :
          WatchCall(d, c, g, l)
    \/ \E tk \in 1..Len(sessions), ok \in BOOLEAN : DeleteCall(tk, ok)
    \/ \E tk \in 1..Len(sessions), k \in {"session", "keepaliveSession"} :
          QueryCall(tk, k)
    \/ \E q \in 1..Len(queries), a \in BOOLEAN : QueryAnswer(q, a)

\* The supervisors: calls, continuations, timer callbacks and child events.
NextSupervisor ==
    \/ \E o \in Supervisors : Start(o)
    \/ \E o \in Supervisors, g \in BOOLEAN, l \in Leases, so \in BOOLEAN :
          StartResume(o, g, l, so)
    \/ \E o \in Supervisors : Poll(o)
    \/ \E o \in Supervisors, ro \in BOOLEAN : Stop(o, ro)
    \/ \E o \in Supervisors, do \in BOOLEAN, ro \in BOOLEAN :
          \E session \in BagToSet(sup[o].aborting) : AbortResume(o, session, do, ro)
    \/ \E p \in 1..Len(procs) : WritePlaylist(p)
    \/ \E p \in 1..Len(procs), so \in BOOLEAN, ro \in BOOLEAN : ExitEvent(p, so, ro)
    \/ \E p \in 1..Len(procs), te \in BOOLEAN, so \in BOOLEAN, ro \in BOOLEAN :
          ErrorEvent(p, te, so, ro)

\* The registry from the start of the program.
SpecRegistry == Init /\ [][NextRegistry]_vars

\* The registry from the empty program, every argument of instance() varied.
SpecFingerprint == Init /\ [][NextFingerprint]_vars

\* The device clients from the empty program.
SpecSessions == Init /\ [][NextSessions]_vars

\* One supervisor from the moment its caller holds it.
Spec == InitSupervisor /\ [][NextSupervisor]_vars

\* start() calls and their continuations, over the wide range of leases.
NextLease ==
    \/ \E o \in Supervisors : Start(o)
    \/ \E o \in Supervisors, g \in BOOLEAN, l \in WideLeases, so \in BOOLEAN :
          StartResume(o, g, l, so)

\* One supervisor whose start() calls are granted leases of any length.
SpecLease == InitSupervisor /\ [][NextLease]_vars

\* The supervisor with its keepalive timer ticking: starts, the teardown a
\* child's end brings about, ticks and the answers to their requests.
NextKeepalive ==
    \/ \E o \in Supervisors : Start(o)
    \/ \E o \in Supervisors, g \in BOOLEAN, l \in Leases : StartResume(o, g, l, TRUE)
    \/ \E p \in 1..Len(procs), ro \in BOOLEAN : ExitEvent(p, TRUE, ro)
    \/ \E o \in Supervisors, do \in BOOLEAN :
          \E session \in BagToSet(sup[o].aborting) : AbortResume(o, session, do, TRUE)
    \/ \E t \in 1..Len(timers) : Tick(t)
    \/ \E q \in 1..Len(queries), a \in BOOLEAN : QueryAnswer(q, a)

\* One supervisor from the moment its caller holds it, its timer ticking.
SpecKeepalive == InitSupervisor /\ [][NextKeepalive]_vars

\* A supervisor in use while instance() is called again for its own pair
\* (device D1, channel C1) with other arguments.
NextReentry ==
    \/ \E o \in Supervisors : Start(o)
    \/ \E o \in Supervisors, g \in BOOLEAN, l \in Leases : StartResume(o, g, l, TRUE)
    \/ \E p \in 1..Len(procs) : WritePlaylist(p)
    \/ \E o \in Supervisors : Poll(o)
    \/ \E opt \in CallOptions :
          InstanceCallWith("D1", "C1", opt.output_path, opt.filename, opt.auto_restart)
    \/ \E i \in 1..Len(icalls), io \in BOOLEAN : InstanceResume(i, io, TRUE, TRUE)

\* One registered supervisor and further instance() calls.
SpecReentry == InitSupervisor /\ [][NextReentry]_vars

\* The Lighthouse client: authenticated requests in any interleaving.
NextLighthouse ==
    \/ LighthouseCall
    \/ \E c \in 1..Len(lighthouse.calls), lo \in LoginOutcomes : LoginAnswer(c, lo)
    \/ \E c \in 1..Len(lighthouse.calls), r \in Responses : ResponseArrives(c, r)

\* The Lighthouse client from its construction.
SpecLighthouse == Init /\ [][NextLighthouse]_vars

\* What the event loop guarantees: an awaited request answers (watchChannel
\* and deleteSession carry timeouts), a scheduled setTimeout fires, and the
\* 'error' of a child that could not be spawned is delivered.
Scheduling ==
    /\ WF_vars(\E o \in Supervisors, do \in BOOLEAN, ro \in BOOLEAN :
                  \E session \in BagToSet(sup[o].aborting) :
                      AbortResume(o, session, do, ro))
    /\ WF_vars(\E o \in Supervisors, g \in BOOLEAN, l \in Leases, so \in BOOLEAN :
                  StartResume(o, g, l, so))
    /\ WF_vars(\E o \in Supervisors : Poll(o))
    /\ WF_vars(\E p \in 1..Len(procs), te \in BOOLEAN, so \in BOOLEAN, ro \in BOOLEAN :
                  ErrorEvent(p, te, so, ro))

\* Spec under the event loop's scheduling.
FairSpec == Spec /\ Scheduling

\* FairSpec with a healthy ffmpeg: a child that keeps running with its
\* output directory in place writes its playlist.
FairSpecFfmpeg == FairSpec /\ WF_vars(\E p \in 1..Len(procs) : WritePlaylist(p))

\* ------------------------------------------------------------------ claims
\* The children of supervisor o that run and have not been told to end (a
\* child that kill() has signalled is on its way out and is not counted).
Live(o) == {p \in 1..Len(procs) : procs[p].owner = o /\ procs[p].status = "running"}

\* The children supervisor o has spawned.
Spawned(o) == {p \in 1..Len(procs) : procs[p].owner = o}

\* No child of o has ended or failed, and none has been killed.
NoProcessEvent(o) == \A p \in Spawned(o) : procs[p].status = "running"

\* C1: every successful instance() for one (device server id, channel id)
\* returns the same supervisor object, and no two supervisors are ever
\* constructed for one fingerprint.
C1_OneSupervisorPerFingerprint ==
    /\ \A i, j \in 1..Len(icalls) :
          (/\ icalls[i].pc = "returned" /\ icalls[j].pc = "returned"
           /\ icalls[i].device = icalls[j].device
           /\ icalls[i].channel_id = icalls[j].channel_id)
          => icalls[i].result = icalls[j].result
    /\ \A o1, o2 \in Supervisors : sup[o1].id = sup[o2].id => o1 = o2
    /\ \A id \in DOMAIN instances : sup[instances[id]].id = id

\* C1 witness: two instance() calls for the same pair have both returned.
C1_Witness ==
    \E i, j \in 1..Len(icalls) :
        /\ i < j
        /\ icalls[i].pc = "returned" /\ icalls[j].pc = "returned"
        /\ icalls[i].device = icalls[j].device
        /\ icalls[i].channel_id = icalls[j].channel_id
        /\ icalls[i].result = icalls[j].result

\* C2: two start() calls on one supervisor, the second made before the
\* supervisor is Active, both returned true: one watch session was requested
\* and one child was spawned.
C2_ConcurrentStartsShare ==
    \A o \in Supervisors :
        (/\ sup[o].starts = 2 /\ sup[o].started = 2
         /\ sup[o].stops = 0 /\ ~sup[o].active /\ NoProcessEvent(o))
        => /\ sup[o].watches = 1
           /\ Cardinality(Spawned(o)) = 1

\* C3: a supervisor has at most one live child process.
C3_AtMostOneLiveProcess ==
    \A o \in Supervisors : Cardinality(Live(o)) <= 1

\* C4: an exit or spawn error respawns only while the supervisor is wanted:
\* auto-restart enabled and the child not ended by the abort sequence; and
\* when stopped is emitted no child is live.
C4_RespawnOnlyWhileWanted ==
    /\ [][\A p \in 1..Len(procs) :
            (/\ procs[p].status \in {"running", "killed", "failed"}
             /\ procs'[p].status \in {"exited", "errored", "errored_exited"}
             /\ Len(procs') > Len(procs))
            => /\ sup[procs[p].owner].auto_restart
               /\ procs[p].status # "killed"]_vars
    /\ [](Has(last.fx, "stopped") => Live(last.self) = {})

\* C5: use_count is never negative.
C5_UseCountNonNegative ==
    \A o \in Supervisors : sup[o].use_count >= 0

\* C6: after n start() calls that all returned true and no stop(), with no
\* child ended, use_count is n and exactly one child is live.
C6_StartsCountedOneProcess ==
    \A o \in Supervisors :
        (/\ sup[o].starts >= 1 /\ sup[o].started = sup[o].starts
         /\ sup[o].stops = 0 /\ NoProcessEvent(o))
        => /\ sup[o].use_count = sup[o].starts
           /\ Cardinality(Live(o)) = 1

\* C7: a stop() that leaves use_count > 0, or that finds the supervisor not
\* Active, kills no child, asks for no session deletion, destroys no timer
\* and removes no directory; so the only stop() that tears down is the one
\* that brings use_count to <= 0 on an Active supervisor.
C7_StopTearsDownOnlyAtZero ==
    [][\A o \in Supervisors :
          (/\ o \in 1..Len(sup')
           /\ sup'[o].stops = sup[o].stops + 1
           /\ (sup'[o].use_count > 0 \/ ~sup[o].active))
          => /\ procs' = procs
             /\ sessions' = sessions
             /\ timers' = timers
             /\ dirs' = dirs /\ files' = files
             /\ sup'[o].process = sup[o].process
             /\ sup'[o].session = sup[o].session
             /\ sup'[o].timer = sup[o].timer
             /\ sup'[o].active = sup[o].active
             /\ sup'[o].aborting = sup[o].aborting
             /\ last'.fx = <<>>]_vars

\* C7 witness: a stop() has just left an Active supervisor with a consumer
\* and its child running.
C7_Witness ==
    /\ last.op = "stop"
    /\ sup[last.self].active
    /\ sup[last.self].use_count > 0
    /\ sup[last.self].process \in Live(last.self)

\* C8: the stop() that brings use_count to <= 0 on an Active supervisor runs
\* the abort sequence: when it returns, stopped has been emitted or an abort
\* handler awaits the deletion of the session, after which it emits stopped.
C8_StopRunsAbort ==
    (last.op = "stop" /\ Has(last.fx, "emit_abort"))
        => \/ Has(last.fx, "stopped")
           \/ sup[last.self].aborting # EmptyBag

\* C9 as claimed: whenever stopped is emitted the output directory does not
\* exist.
C9_DirGoneAtStopped ==
    Has(last.fx, "stopped")
        => DirOf(sup[last.self].output_path, sup[last.self].id) \notin dirs

\* C9 amended: whenever stopped is emitted and the removal did not fail the
\* output directory does not exist, and a directory that does not exist
\* stays absent until a supervisor is constructed.
C9_DirGoneUnlessRemovalFailed ==
    /\ [](Has(last.fx, "stopped") /\ ~Has(last.fx, "rm_failed")
            => DirOf(sup[last.self].output_path, sup[last.self].id) \notin dirs)
    /\ [][\A d \in dirs' \ dirs : Len(sup') > Len(sup)]_vars

\* C9 witness: stopped has been emitted after the directory was removed.
C9_Witness ==
    /\ Has(last.fx, "stopped")
    /\ Has(last.fx, "rm")
    /\ DirOf(sup[last.self].output_path, sup[last.self].id) \notin dirs

\* C10: when a child exits while auto-restart is enabled, a new child is
\* spawned with the arguments of the one that exited, and the exit issues no
\* watch request.
C10_ExitRespawnsSameArgs ==
    [][\A p \in 1..Len(procs) :
          (/\ procs[p].status \in {"running", "killed"}
           /\ procs'[p].status = "exited"
           /\ sup[procs[p].owner].auto_restart)
          => /\ Len(procs') = Len(procs) + 1
             /\ procs'[Len(procs')].args = procs[p].args
             /\ procs'[Len(procs')].owner = procs[p].owner
             /\ sup'[procs[p].owner].watches = sup[procs[p].owner].watches
             /\ sessions' = sessions]_vars

\* The last step delivered a child's 'exit' or 'error' (or both) to
\* supervisor o.
ProcessEventOf(o) == last.self = o /\ last.op \in {"exit", "error"}

\* C11: with auto-restart disabled, the delivery of a child's exit, error, or
\* both, while a process handle is recorded runs the abort sequence once:
\* nothing is respawned, the handle is dropped, its child signalled and the
\* timer destroyed, and stopped is emitted once, there or when the one
\* deletion it awaits answers, the supervisor then not Active; a delivery
\* that finds no handle emits nothing more.
C11_ExitAbortsOnce ==
    /\ [][\A o \in Supervisors :
            (ProcessEventOf(o)' /\ ~sup[o].auto_restart)
            => /\ Len(procs') = Len(procs)
               /\ sup'[o].process = NoProcess
               /\ sup'[o].timer = NoTimer
               /\ sup[o].process # NoProcess
                    => procs'[sup[o].process].status # "running"
               /\ CountIn(last'.fx, "stopped")
                    + BagCardinality(sup'[o].aborting)
                    - BagCardinality(sup[o].aborting)
                  = IF sup[o].process # NoProcess THEN 1 ELSE 0]_vars
    /\ [][\A o \in Supervisors :
            (last'.op = "abort_resume" /\ last'.self = o)
            => /\ CountIn(last'.fx, "stopped") = 1
               /\ ~sup'[o].active
               /\ BagCardinality(sup'[o].aborting)
                    = BagCardinality(sup[o].aborting) - 1]_vars
    /\ \A o \in 1..MaxInstanceCalls :
          (/\ o \in Supervisors /\ ProcessEventOf(o)
           /\ ~sup[o].auto_restart /\ Has(last.fx, "clear_process"))
          ~> (/\ o \in Supervisors /\ last.self = o
              /\ Has(last.fx, "stopped") /\ ~sup[o].active)

\* C11 witness: with auto-restart disabled and no stop() made, a spawn error
\* and the exit of the same child were delivered, and stopped has been
\* emitted by the abort they began.
C11_Witness ==
    /\ last.op = "abort_resume"
    /\ CountIn(last.fx, "stopped") = 1
    /\ ~sup[last.self].auto_restart
    /\ sup[last.self].stops = 0
    /\ ~sup[last.self].active
    /\ sup[last.self].process = NoProcess
    /\ \E p \in Spawned(last.self) : procs[p].status = "errored_exited"

\* The instance() call i, suspended in device.info(), resumes in this step.
InstanceResumes(i) == icalls[i].pc = "info" /\ icalls'[i].pc # "info"

\* C12: whatever other instance() calls are suspended in the identity
\* lookup, a resuming call constructs a supervisor only when its fingerprint
\* is not registered, and registers it in the same step; for a registered
\* fingerprint it returns the registered supervisor and leaves supervisors,
\* registry and directories alone. Every supervisor is registered under its
\* fingerprint, so the constructor runs at most once per fingerprint.
C12_LookupInsertAtomic ==
    /\ [][\A i \in 1..Len(icalls) :
            InstanceResumes(i)
            => LET id == Fingerprint(icalls[i].device, icalls[i].channel_id)
               IN IF id \in DOMAIN instances
                  THEN /\ sup' = sup /\ instances' = instances
                       /\ dirs' = dirs /\ files' = files
                       /\ icalls'[i].pc = "returned"
                            => icalls'[i].result = instances[id]
                  ELSE Len(sup') > Len(sup)
                       => /\ Len(sup') = Len(sup) + 1
                          /\ sup'[Len(sup')].id = id
                          /\ id \in DOMAIN instances'
                          /\ instances'[id] = Len(sup')
                          /\ icalls'[i].result = Len(sup')]_vars
    /\ [](\A o \in Supervisors :
            sup[o].id \in DOMAIN instances /\ instances[sup[o].id] = o)

\* C12 witness: two instance() calls for one pair were suspended in the
\* identity lookup together; both have returned, with the one supervisor
\* constructed for their fingerprint.
C12_Witness ==
    \E i, j \in 1..Len(icalls) :
        /\ i # j
        /\ icalls[i].raced
        /\ icalls[i].pc = "returned" /\ icalls[j].pc = "returned"
        /\ icalls[i].device = icalls[j].device
        /\ icalls[i].channel_id = icalls[j].channel_id
        /\ icalls[i].result = icalls[j].result
        /\ Cardinality({o \in Supervisors : sup[o].id = icalls[i].id}) = 1

\* C13: a start() on an Active supervisor adds one to use_count, emits ready
\* and nothing else, and returns true; it asks for no watch session, creates
\* no timer, spawns no child and leaves the rest of the supervisor as it was.
C13_StartOnActiveJoins ==
    [][\A o \in Supervisors :
          (/\ o \in 1..Len(sup')
           /\ sup'[o].starts = sup[o].starts + 1
           /\ sup[o].active)
          => /\ sup'[o] = [sup[o] EXCEPT !.starts = @ + 1,
                                         !.use_count = @ + 1,
                                         !.started = @ + 1]
             /\ last'.fx = <<"ready">>
             /\ sessions' = sessions /\ session_channels' = session_channels
             /\ timers' = timers
             /\ procs' = procs]_vars

\* C13 witness: a start() has just joined an Active supervisor: two
\* consumers, one watch request, one timer and one child.
C13_Witness ==
    /\ last.op = "start"
    /\ last.fx = <<"ready">>
    /\ sup[last.self].active
    /\ sup[last.self].use_count = 2
    /\ sup[last.self].watches = 1
    /\ Len(timers) = 1
    /\ Cardinality(Spawned(last.self)) = 1

\* C14: the active flag turns true only in a readiness check that finds the
\* playlist on disk, and that check belongs to the current activation: the
\* supervisor holds the child it started, or the abort sequence that dropped
\* it has not yet emitted stopped.
C14_ActiveOnlyByCurrentPoll ==
    [][\A o \in Supervisors :
          (o \in 1..Len(sup') /\ ~sup[o].active /\ sup'[o].active)
          => /\ last'.op = "poll" /\ last'.self = o
             /\ sup[o].full_path \in files
             /\ (sup[o].process # NoProcess \/ sup[o].aborting # EmptyBag)]_vars

\* The sessions the appliance granted to supervisor o and still holds.
LiveSessions(o) ==
    {t \in 1..Len(sessions) : /\ sessions[t].device = sup[o].device
                              /\ sessions[t].channel = sup[o].channel_id
                              /\ sessions[t].live}

\* C15: an Active supervisor has a session recorded, and that session is the
\* only undeleted one it has obtained.
C15_ActiveHasOneSession ==
    \A o \in Supervisors :
        sup[o].active
        => /\ sup[o].session # NoSession
           /\ LiveSessions(o) = {sup[o].session.token}

\* A start() of supervisor o resumes in this step without a session.
StartFails(o) ==
    /\ o \in 1..Len(sup')
    /\ sup'[o].awaiting = sup[o].awaiting - 1
    /\ sup'[o].session = NoSession

\* C16: a start() that gets no watch session emits error and nothing else
\* and returns false: use_count stays, no child is spawned, no timer is
\* created, no session exists more than before, and the supervisor is left
\* as it was but for the session it records (none); one that was Idle is
\* Idle again.
C16_StartFailureLeavesIdle ==
    [][\A o \in Supervisors :
          StartFails(o)
          => /\ last'.fx = <<"error">>
             /\ sup'[o] = [sup[o] EXCEPT !.awaiting = @ - 1, !.session = NoSession]
             /\ sup'[o].use_count = sup[o].use_count
             /\ sup'[o].started = sup[o].started
             /\ procs' = procs
             /\ timers' = timers
             /\ sessions' = sessions
             /\ dirs' = dirs /\ files' = files]_vars

\* C16 witness: the start() of an Idle supervisor has just failed to get a
\* session: error emitted, no consumer counted, nothing spawned or created.
C16_Witness ==
    /\ last.op = "start_resume"
    /\ last.fx = <<"error">>
    /\ sup[last.self].starts = 1
    /\ sup[last.self].started = 0
    /\ sup[last.self].use_count = 0
    /\ sup[last.self].awaiting = 0
    /\ sup[last.self].process = NoProcess
    /\ sup[last.self].timer = NoTimer
    /\ ~sup[last.self].active
    /\ procs = <<>> /\ timers = <<>> /\ sessions = <<>>

\* C17: an instance() call whose device information cannot be had (it
\* throws before it computes a fingerprint) registers nothing and touches no
\* directory: supervisors, registry, directories and files stay as they were,
\* and no call that has not thrown is without a fingerprint once resumed.
C17_InstanceFailsCleanly ==
    /\ [][\A i \in 1..Len(icalls) :
            (InstanceResumes(i) /\ icalls'[i].id = <<>>)
            => /\ icalls'[i].pc = "threw"
               /\ last'.fx = <<"throw">>
               /\ icalls'[i].result = NoInstance
               /\ sup' = sup
               /\ instances' = instances
               /\ dirs' = dirs /\ files' = files]_vars
    /\ [](\A i \in 1..Len(icalls) :
            icalls[i].pc = "returned"
            => icalls[i].id # <<>> /\ icalls[i].result \in Supervisors)

\* C17 witness: an instance() call has just thrown for want of the device's
\* information while a supervisor is registered with its directory.
C17_Witness ==
    /\ last.op = "instance_resume"
    /\ last.fx = <<"throw">>
    /\ \E i \in 1..Len(icalls) : icalls[i].pc = "threw" /\ icalls[i].id = <<>>
    /\ \E o \in Supervisors :
          /\ sup[o].id \in DOMAIN instances
          /\ DirOf(sup[o].output_path, sup[o].id) \in dirs

\* The last step was a stop() that found a start() of o in flight (session
\* granted, child spawned and running, playlist not yet observed) and
\* brought use_count to <= 0.
StopDuringStart(o) ==
    /\ last.op = "stop" /\ last.self = o
    /\ sup[o].use_count <= 0
    /\ ~sup[o].active
    /\ sup[o].polls > 0
    /\ sup[o].session # NoSession
    /\ sup[o].process \in Live(o)

\* C18: a stop() that finds a start() in flight and brings use_count to <= 0
\* unwinds it: eventually the child it spawned is not running and no session
\* of the supervisor is left undeleted.
C18_StopUnwindsStart ==
    \A o \in 1..MaxInstanceCalls :
        (o \in Supervisors /\ StopDuringStart(o))
        ~> (o \in Supervisors /\ Live(o) = {} /\ LiveSessions(o) = {})

\* C19: no start() runs between the steps of an abort sequence; in
\* particular, when a start() has just joined an Active supervisor with a
\* ready report, no abort handler of that supervisor is suspended on the
\* deletion of a session.
C19_NoStartInsideAbort ==
    (last.op = "start" /\ Has(last.fx, "ready"))
        => sup[last.self].aborting = EmptyBag

\* The last step was the first start() of supervisor o, made while it was
\* Idle: the call is suspended in watchChannel.
StartOnIdle(o) ==
    /\ last.op = "start" /\ last.self = o
    /\ Has(last.fx, "watch_request")
    /\ sup[o].starts = 1 /\ sup[o].awaiting = 1
    /\ sup[o].use_count = 0 /\ sup[o].process = NoProcess

HasBeenActive(o) == sup[o].polls # sup[o].started

\* C21: a supervisor that asked for one watch session has gone through one
\* activation cycle at most; once it has turned Active, stopped is emitted
\* at most once, whatever stop(), exit and error events occur.
C21_StoppedOncePerActivation ==
    \A o \in Supervisors :
        (HasBeenActive(o) /\ sup[o].watches = 1) => sup[o].stopped <= 1

\* C22: a step emits ready once when it takes the supervisor to Active, once
\* when it is a start() joining an Active supervisor, and never otherwise.
C22_ReadyOncePerActivationOrJoin ==
    [][\A o \in Supervisors :
          (o \in 1..Len(sup') /\ last'.self = o)
          => CountIn(last'.fx, "ready")
               = (IF ~sup[o].active /\ sup'[o].active THEN 1 ELSE 0)
                 + (IF sup[o].active /\ sup'[o].starts = sup[o].starts + 1
                    THEN 1 ELSE 0)]_vars

\* The step creates a keepalive timer for supervisor o.
TimerCreated(o) ==
    /\ o \in 1..Len(sup')
    /\ Len(timers') = Len(timers) + 1
    /\ sup'[o].timer = Len(timers')

\* C23: the timer start() creates for a session with a lease of L seconds,
\* L > 30, has an interval of L - 30 seconds, that is (L - 30) * 1000
\* milliseconds; 30000 milliseconds for a lease of 60 seconds.
C23_IntervalIsLeaseMinus30 ==
    [][\A o \in Supervisors :
          TimerCreated(o)
          => LET L == sup'[o].session.keepalive
                 interval == timers'[sup'[o].timer].interval
             IN /\ L > 30 => interval = (L - 30) * 1000
                /\ L = 60 => interval = 30000]_vars

\* C23 witness: start() has just created its timer for a lease of 60
\* seconds, with an interval of 30000 milliseconds.
C23_Witness ==
    /\ last.op = "start_resume"
    /\ Has(last.fx, "new_timer")
    /\ sup[last.self].session.keepalive = 60
    /\ sup[last.self].timer # NoTimer
    /\ timers[sup[last.self].timer].interval = 30000

\* C24: whatever lease the appliance grants, also one of 30 seconds or less,
\* the interval of the keepalive timer start() creates is strictly positive.
C24_IntervalPositive ==
    \A t \in 1..Len(timers) : timers[t].interval > 0

\* Supervisor o has no live child: no handle recorded, none of its children
\* running.
SettledWithoutProcess(o) ==
    /\ sup[o].process = NoProcess
    /\ Live(o) = {}

\* C25: a spawn failure is reported by the error signal and, with
\* auto-restart disabled, the supervisor eventually settles in Idle or
\* Stopped with no live process.
C25_SpawnFailureSettles ==
    /\ [](last.op = "error" => Has(last.fx, "error"))
    /\ \A o \in 1..MaxInstanceCalls :
          (/\ o \in Supervisors /\ last.op = "error" /\ last.self = o
           /\ ~sup[o].auto_restart)
          ~> (o \in Supervisors /\ SettledWithoutProcess(o))

\* C26: a failure to create or remove the output directory never escapes a
\* public operation: an instance() call throws only for want of the device's
\* information (before it has a fingerprint), never out of the constructor,
\* and a cleanup whose removal failed still emits stopped.
C26_FilesystemFaultSwallowed ==
    /\ \A i \in 1..Len(icalls) : icalls[i].pc = "threw" => icalls[i].id = <<>>
    /\ Has(last.fx, "rm_failed") => Has(last.fx, "stopped")

\* C27: the fingerprint an instance() call computes is the digest of its
\* (device server id, channel id) pair and of nothing else: two calls have
\* equal fingerprints exactly when their pairs are equal, whatever the
\* registry holds and whatever output path, filename and auto-restart they
\* pass; calls with different pairs are given different registry entries
\* and different supervisors.
C27_FingerprintOfPairOnly ==
    \A i, j \in 1..Len(icalls) :
        (icalls[i].id # <<>> /\ icalls[j].id # <<>>)
        => /\ icalls[i].id = Fingerprint(icalls[i].device, icalls[i].channel_id)
           /\ (icalls[i].id = icalls[j].id)
                <=> (/\ icalls[i].device = icalls[j].device
                     /\ icalls[i].channel_id = icalls[j].channel_id)
           /\ (/\ icalls[i].pc = "returned" /\ icalls[j].pc = "returned"
               /\ icalls[i].id # icalls[j].id)
              => /\ icalls[i].result # icalls[j].result
                 /\ instances[icalls[i].id] = icalls[i].result
                 /\ instances[icalls[j].id] = icalls[j].result

\* C27 witness: two instance() calls with the same pair and a different
\* output path, filename and auto-restart have returned with one
\* fingerprint.
C27_Witness ==
    \E i, j \in 1..Len(icalls) :
        /\ icalls[i].pc = "returned" /\ icalls[j].pc = "returned"
        /\ icalls[i].device = icalls[j].device
        /\ icalls[i].channel_id = icalls[j].channel_id
        /\ icalls[i].output_path # icalls[j].output_path
        /\ icalls[i].filename # icalls[j].filename
        /\ icalls[i].auto_restart # icalls[j].auto_restart
        /\ icalls[i].id = icalls[j].id

\* The queries that have returned a session.
AnsweredQueries == {q \in 1..Len(queries) :
                      queries[q].pc = "returned" /\ queries[q].result # NoAnswer}

\* The tokens whose deleteSession has succeeded.
DeletedTokens == {t \in 1..Len(sessions) : ~sessions[t].live}

\* C28: a token returned by watchChannel for a channel and not yet
\* successfully deleted stays recorded with that channel, and every session
\* that session(token) or keepaliveSession(token) returns carries the channel
\* recorded at watchChannel; once deleteSession(token) has succeeded the
\* client no longer records a channel for the token.
C28_SessionCarriesWatchedChannel ==
    /\ \A t \in 1..Len(sessions) :
         LET known == session_channels[sessions[t].device]
         IN IF sessions[t].live
            THEN t \in DOMAIN known /\ known[t] = sessions[t].channel
            ELSE t \notin DOMAIN known
    /\ \A q \in AnsweredQueries :
         /\ queries[q].result.token = queries[q].token
         /\ queries[q].result.channel = sessions[queries[q].token].channel

\* C28 happens: two sessions on different channels were watched, one was
\* deleted with success, and a query of the other has returned its session.
C28_Witness ==
    /\ DeletedTokens # {}
    /\ \E q \in AnsweredQueries :
         \E t \in DeletedTokens :
           sessions[t].channel # sessions[queries[q].token].channel

\* The place of an effect in the abort sequence, 0 for any other effect.
AbortStep(e) ==
    CASE e = "write_q" -> 1
      [] e = "kill" -> 2
      [] e = "clear_process" -> 3
      [] e = "destroy_timer" -> 4
      [] e = "delete_session" -> 5
      [] e = "clear_active" -> 6
      [] e \in {"rm", "rm_failed"} -> 7
      [] e = "stopped" -> 8
      [] OTHER -> 0

\* The effect e comes before the effect f in the last handler run.
Before(e, f) ==
    \E i, j \in 1..Len(last.fx) : i < j /\ last.fx[i] = e /\ last.fx[j] = f

\* C29: the steps of the abort sequence come in the order quit character,
\* kill, process handle cleared, timer destroyed, session deletion requested,
\* and, once the deletion has answered (or at once when no session is
\* recorded), active flag cleared, directory removed, stopped emitted; no
\* step of a handler run comes before an earlier step of the sequence.
C29_AbortStepsInOrder ==
    /\ \A i, j \in 1..Len(last.fx) :
         (i < j /\ AbortStep(last.fx[i]) > 0 /\ AbortStep(last.fx[j]) > 0)
            => AbortStep(last.fx[i]) < AbortStep(last.fx[j])
    /\ Has(last.fx, "kill") => Before("write_q", "kill")
    /\ Has(last.fx, "clear_process") => Before("kill", "clear_process")
    /\ Has(last.fx, "delete_session") => Before("clear_process", "delete_session")
    /\ Has(last.fx, "clear_active")
         => \/ last.op = "abort_resume"
            \/ Before("clear_process", "clear_active") /\ ~Has(last.fx, "delete_session")
    /\ Has(last.fx, "stopped") => Before("clear_active", "stopped")
    /\ (Has(last.fx, "rm") \/ Has(last.fx, "rm_failed")) => Has(last.fx, "stopped")

\* C29 happens: an abort sequence that waited for the deletion of its session
\* has resumed, removed the output directory and emitted stopped.
C29_Witness ==
    /\ last.op = "abort_resume"
    /\ last.fx = <<"clear_active", "rm", "stopped">>
    /\ sup[last.self].process = NoProcess
    /\ sup[last.self].timer = NoTimer

\* C30: an Active supervisor has at least one registered consumer
\* (use_count >= 1), also after a stop() that arrived before the readiness
\* poll succeeded.
C30_ActiveHasConsumer ==
    \A o \in Supervisors : sup[o].active => sup[o].use_count >= 1

\* The session supervisor o records is none or has been deleted on the
\* appliance.
RecordedSessionDeleted(o) ==
    \/ sup[o].session = NoSession
    \/ ~sessions[sup[o].session.token].live

\* C31: when a supervisor emits stopped, its abort having deleted the
\* session it records, no session granted to it is left undeleted on the
\* appliance, the sessions of overlapping start() calls included.
C31_NoSessionLeaked ==
    \A o \in Supervisors :
        (last.self = o /\ Has(last.fx, "stopped") /\ RecordedSessionDeleted(o))
            => LiveSessions(o) = {}

\* The keepalive timers supervisor o has created and destroy() has not been
\* called on.
UndestroyedTimers(o) ==
    {t \in 1..Len(timers) : timers[t].owner = o /\ ~timers[t].destroyed}

\* C32: a supervisor has at most one keepalive timer that is not destroyed,
\* and when it emits stopped none of the timers it created is left.
C32_OneTimerNoneAfterStopped ==
    \A o \in Supervisors :
        /\ Cardinality(UndestroyedTimers(o)) <= 1
        /\ (last.self = o /\ Has(last.fx, "stopped")) => UndestroyedTimers(o) = {}

\* C33: every spawn of ffmpeg happens while the supervisor's output
\* directory exists, also in a start() that follows an activation cycle
\* ended in cleanup.
C33_SpawnInExistingDirectory ==
    \A o \in Supervisors :
        (last.self = o /\ Has(last.fx, "spawn"))
            => DirOf(sup[o].output_path, sup[o].id) \in dirs

\* C34: when teardown has completed (stopped emitted) and the supervisor has
\* no process and is not Active, use_count is 0, whether the teardown came
\* from stop() or from a child's exit or error without auto-restart.
C34_UseCountZeroAfterTeardown ==
    \A o \in Supervisors :
        (/\ last.self = o /\ Has(last.fx, "stopped")
         /\ sup[o].process = NoProcess /\ ~sup[o].active)
            => sup[o].use_count = 0

\* The step is a tick of a timer of supervisor o.
TickOf(o) == last'.op = "tick" /\ last'.self = o

\* The step is the answer, or the failure, of a request in flight.
KeepaliveAnswered == last'.op = "query_answer"

\* C35: a tick sends exactly one keepalive request, for the recorded
\* session, if a session is recorded and no request otherwise; when a
\* request fails nothing is sent again. Neither the tick nor the answer stops
\* a timer or changes the supervisor's session, active flag, use_count or
\* process.
C35_TickSendsOneKeepalive ==
    [][/\ \A o \in Supervisors :
            TickOf(o) =>
              /\ IF sup[o].session # NoSession
                 THEN /\ Len(queries') = Len(queries) + 1
                      /\ queries'[Len(queries')].token = sup[o].session.token
                      /\ queries'[Len(queries')].pc = "sent"
                      /\ last'.fx = <<"keepalive_request">>
                 ELSE queries' = queries /\ last'.fx = <<>>
              /\ sup' = sup /\ timers' = timers /\ procs' = procs
       /\ KeepaliveAnswered =>
              /\ Len(queries') = Len(queries)
              /\ sup' = sup /\ timers' = timers /\ procs' = procs]_vars

\* C35 happens: a keepalive request sent by a tick has failed while the timer
\* that sent it is still there, and another tick has found no session.
C35_Witness ==
    /\ last.op = "tick" /\ last.fx = <<>>
    /\ sup[last.self].session = NoSession
    /\ UndestroyedTimers(last.self) # {}
    /\ \E q \in 1..Len(queries) :
          queries[q].pc = "returned" /\ queries[q].result = NoAnswer

\* The effects by which a child's 'error' or 'exit' handler reacts: the
\* respawn, or the 'abort' it emits.
Reactions == {"spawn", "emit_abort"}

\* C36: in the handler of a child's error or exit the public signal comes
\* first: error (or exit) is emitted, and the respawn (auto-restart enabled)
\* or the abort (auto-restart disabled) it triggers follows it directly;
\* nothing is respawned or aborted ahead of the signal.
C36_SignalBeforeReaction ==
    \A o \in Supervisors :
        ProcessEventOf(o) =>
            /\ Len(last.fx) >= 1 /\ last.fx[1] = last.op
            /\ \A i \in 1..Len(last.fx) :
                 /\ last.fx[i] \in Reactions =>
                      /\ i > 1 /\ last.fx[i - 1] \in {"error", "exit"}
                      /\ (last.fx[i] = "spawn") = sup[o].auto_restart
                 /\ (last.fx[i] \in {"error", "exit"} /\ ~sup[o].auto_restart) =>
                      /\ i < Len(last.fx) /\ last.fx[i + 1] = "emit_abort"

\* C36 happens: a child that could not be spawned reported error and then
\* exit, auto-restart disabled, and each signal was followed by its abort.
C36_Witness ==
    /\ last.op = "error"
    /\ ~sup[last.self].auto_restart
    /\ last.fx[1] = "error" /\ last.fx[2] = "emit_abort"
    /\ Has(last.fx, "stopped") \/ Has(last.fx, "delete_session")
    /\ last.fx[Len(last.fx) - 1] = "exit" /\ last.fx[Len(last.fx)] = "emit_abort"

\* The supervisor registered for the pair of the instance() call i, or
\* NoInstance.
RegisteredFor(i) ==
    RegistryGet(instances, Fingerprint(icalls[i].device, icalls[i].channel_id))

\* C37: an instance() call that finds its fingerprint registered has no
\* side effect, whatever output path, filename and auto-restart it was given:
\* it returns the registered supervisor (or throws when the device gives no
\* information) and leaves the directories and files on disk, the registry
\* and every supervisor (options, use_count, active flag, process, session)
\* as they were.
C37_RegisteredInstanceHasNoEffect ==
    [][\A i \in 1..Len(icalls) :
          (InstanceResumes(i) /\ RegisteredFor(i) # NoInstance) =>
             /\ sup' = sup /\ instances' = instances
             /\ dirs' = dirs /\ files' = files
             /\ procs' = procs /\ timers' = timers /\ sessions' = sessions
             /\ icalls'[i].pc = "returned" => icalls'[i].result = RegisteredFor(i)
             /\ ~Has(last'.fx, "rm") /\ ~Has(last'.fx, "mkdir")]_vars

\* C37 happens: instance() was called with another output path, filename
\* and auto-restart flag for a supervisor that is Active with its playlist
\* on disk, and returned that supervisor.
C37_Witness ==
    /\ last.op = "instance_resume" /\ last.self = 1
    /\ Len(icalls) >= 2
    /\ icalls[2].pc = "returned" /\ icalls[2].result = 1
    /\ icalls[2].output_path # sup[1].output_path
    /\ icalls[2].filename # sup[1].filename
    /\ icalls[2].auto_restart # sup[1].auto_restart
    /\ sup[1].active /\ sup[1].use_count = 1
    /\ sup[1].full_path \in files

\* C38: the registry never evicts: a supervisor registered for a fingerprint
\* stays registered under it through every start, stop, child exit, child
\* error and teardown.
C38_RegistryNeverEvicts ==
    \A o \in Supervisors :
        /\ sup[o].id \in DOMAIN instances
        /\ instances[sup[o].id] = o

\* C38 happens: a supervisor that was started and stopped has been torn
\* down, stopped emitted and its directory removed, and it is registered as
\* before.
C38_Witness ==
    /\ last.op = "abort_resume" /\ Has(last.fx, "rm") /\ Has(last.fx, "stopped")
    /\ sup[last.self].stops >= 1
    /\ RegistryGet(instances, sup[last.self].id) = last.self

\* The execute() calls made so far.
LighthouseCalls == 1..Len(lighthouse.calls)

\* C39: an authenticated Lighthouse request sends its request at most
\* twice: a second time only as the one retry that follows a 401 to the
\* first attempt and a login that succeeded; a 401 to the retry, like any
\* other failure of it, raises an error and not another login; a login that
\* fails raises an error with nothing sent after it; and every request goes
\* out with a token held.
C39_AtMostOneRetry ==
    \A c \in LighthouseCalls :
        LET call == lighthouse.calls[c]
        IN /\ call.sent <= 2 /\ call.relogins <= 1 /\ call.logins <= 1
           /\ call.sent = 2 <=> call.is_retry
           /\ call.is_retry => call.relogins = 1
           /\ call.pc = "relogin" =>
                 call.status = "unauthorized" /\ ~call.is_retry /\ call.sent = 1
           /\ call.relogins = 1 =>
                 \/ call.is_retry
                 \/ call.pc = "relogin"
                 \/ call.pc = "threw" /\ call.sent = 1
           /\ (call.is_retry /\ call.pc # "request") =>
                 \/ call.pc = "returned" /\ call.status = "ok"
                 \/ call.pc = "threw" /\ call.status # "ok"
           /\ call.sent = 0 => call.pc \in {"login", "threw"}
           /\ ~call.no_token

\* C39 happens: one call got a 401, logged in again, retried and got a 401
\* again, which raised an error after two requests; another call's first
\* login failed, which raised an error with no request sent.
C39_Witness ==
    \E c, d \in LighthouseCalls :
        /\ lighthouse.calls[c].pc = "threw"
        /\ lighthouse.calls[c].is_retry
        /\ lighthouse.calls[c].status = "unauthorized"
        /\ lighthouse.calls[c].sent = 2
        /\ lighthouse.calls[d].pc = "threw"
        /\ lighthouse.calls[d].sent = 0
        /\ lighthouse.calls[d].logins = 1
====
